---- MODULE Spec2Model ----
(***************************************************************************)
(* Model of the bird-data cleaning pipeline of src/data/cleaner.py.        *)
(*                                                                         *)
(* A table (pandas DataFrame) is a record                                  *)
(*    [cols  : sequence of column names,                                   *)
(*     dtype : column name -> "int64" | "float64" | "object" | "Int64"     *)
(*                            | "Float64",                                 *)
(*     rows  : sequence of rows, a row being a function column -> cell].   *)
(* A cell is a record [k, n, d, s]: k = "num" carries the rational n/d,    *)
(* k = "str" carries the text s (a sequence of one-character strings),     *)
(* k = "na" is a missing value (NaN / pd.NA).  Column names are texts too, *)
(* so that lower-casing a header is computed, not assumed.                 *)
(***************************************************************************)
EXTENDS Integers, Sequences, FiniteSets, TLC

(* ------------------------------ bounds --------------------------------- *)
MaxRowsNarrow == 3
MaxRowsWide == 2
MaxRowsCleaned == 3

(* ------------------------------ characters ----------------------------- *)
UpperAlpha == <<"A","B","C","D","E","F","G","H","I","J","K","L","M",
                "N","O","P","Q","R","S","T","U","V","W","X","Y","Z">>

LowerAlpha == <<"a","b","c","d","e","f","g","h","i","j","k","l","m",
                "n","o","p","q","r","s","t","u","v","w","x","y","z">>

DigitChars == <<"0","1","2","3","4","5","6","7","8","9">>

\* the characters of the model in code-point order
Ascii == <<" ", ".">> \o DigitChars \o UpperAlpha \o <<"_">> \o LowerAlpha

CharCode(c) == CHOOSE i \in 1..Len(Ascii) : Ascii[i] = c

IsUpper(c) == \E i \in 1..26 : UpperAlpha[i] = c

IsLower(c) == \E i \in 1..26 : LowerAlpha[i] = c

IsCased(c) == IsUpper(c) \/ IsLower(c)

IsSpace(c) == c = " "

ToLower(c) == IF IsUpper(c) THEN LowerAlpha[CHOOSE i \in 1..26 : UpperAlpha[i] = c] ELSE c

ToUpper(c) == IF IsLower(c) THEN UpperAlpha[CHOOSE i \in 1..26 : LowerAlpha[i] = c] ELSE c

(* ------------------------------ texts ---------------------------------- *)
\* str.lower()
StrLower(s) == [i \in 1..Len(s) |-> ToLower(s[i])]

\* str.capitalize() in place of str.title(): only the first character is raised
StrTitle_Capitalize(s) ==
    [i \in 1..Len(s) |-> IF i = 1 THEN ToUpper(s[i]) ELSE ToLower(s[i])]

\* str.title(): a cased character is upper-cased when the character before
\* it is not cased, and lower-cased otherwise; other characters are kept
StrTitle(s) ==
    [i \in 1..Len(s) |->
        IF ~IsCased(s[i]) THEN s[i]
        ELSE IF i > 1 /\ IsCased(s[i-1]) THEN ToLower(s[i])
        ELSE ToUpper(s[i])]

\* str.strip(): drop leading and trailing whitespace
StrStrip(s) ==
    LET keep == {i \in 1..Len(s) : ~IsSpace(s[i])}
    IN  IF keep = {} THEN <<>>
        ELSE LET lo == CHOOSE i \in keep : \A j \in keep : i <= j
                 hi == CHOOSE i \in keep : \A j \in keep : j <= i
             IN  SubSeq(s, lo, hi)

\* s < t in Python's string order (lexicographic by code point)
StrLess(s, t) ==
    \/ /\ Len(s) < Len(t)
       /\ \A i \in 1..Len(s) : s[i] = t[i]
    \/ \E i \in 1..Len(s) :
          /\ i <= Len(t)
          /\ \A j \in 1..(i-1) : s[j] = t[j]
          /\ CharCode(s[i]) < CharCode(t[i])

RECURSIVE NatToStr(_)
\* str(n) of a natural number
NatToStr(n) ==
    IF n < 10 THEN <<DigitChars[n + 1]>>
    ELSE NatToStr(n \div 10) \o <<DigitChars[(n % 10) + 1]>>

(* ------------------------------ numbers -------------------------------- *)
Abs(x) == IF x < 0 THEN -x ELSE x

RECURSIVE GCD(_, _)
GCD(a, b) == IF b = 0 THEN a ELSE GCD(b, a % b)

\* cells
NA == [k |-> "na", n |-> 0, d |-> 1, s |-> <<>>]

Num(a, b) ==
    LET g == GCD(Abs(a), b)
    IN  [k |-> "num", n |-> a \div g, d |-> b \div g, s |-> <<>>]

IntCell(a) == Num(a, 1)

Str(t) == [k |-> "str", n |-> 0, d |-> 1, s |-> t]

IsNA(c) == c.k = "na"

NumLess(x, y) == x.n * y.d < y.n * x.d

NumLeq(x, y) == x.n * y.d <= y.n * x.d

NumAdd(x, y) == Num(x.n * y.d + y.n * x.d, x.d * y.d)

RECURSIVE SeqSum(_)
SeqSum(q) == IF q = <<>> THEN IntCell(0) ELSE NumAdd(Head(q), SeqSum(Tail(q)))

\* subsequence of q of the entries satisfying the index set keep
RECURSIVE Pick(_, _, _)
Pick(q, keep, i) ==
    IF i > Len(q) THEN <<>>
    ELSE IF i \in keep THEN <<q[i]>> \o Pick(q, keep, i + 1)
    ELSE Pick(q, keep, i + 1)

SelectIdx(q, keep) == Pick(q, keep, 1)

\* ascending sort of a sequence of numbers
RECURSIVE SortNums(_)
SortNums(q) ==
    IF q = <<>> THEN <<>>
    ELSE LET i == CHOOSE a \in 1..Len(q) : \A b \in 1..Len(q) : NumLeq(q[a], q[b])
         IN  <<q[i]>> \o SortNums(SelectIdx(q, (1..Len(q)) \ {i}))

(* ------------------------------ tables --------------------------------- *)
ColSet(t) == {t.cols[i] : i \in 1..Len(t.cols)}

HasCol(t, c) == c \in ColSet(t)

NRows(t) == Len(t.rows)

\* df[c] as a sequence of cells
Column(t, c) == [i \in 1..NRows(t) |-> t.rows[i][c]]

\* df[c].isna().sum()
MissingCount(t, c) == Cardinality({i \in 1..NRows(t) : IsNA(t.rows[i][c])})

\* the non-missing entries of df[c], in row order
Present(t, c) == SelectIdx(Column(t, c), {i \in 1..NRows(t) : ~IsNA(t.rows[i][c])})

\* pd.api.types.is_numeric_dtype
is_numeric_dtype(dt) == dt \in {"int64", "float64", "Int64", "Float64"}

\* df with column c replaced by the cells q and carrying the kind dt
SetColumn(t, c, q, dt) ==
    [cols  |-> t.cols,
     dtype |-> [t.dtype EXCEPT ![c] = dt],
     rows  |-> [i \in 1..NRows(t) |-> [t.rows[i] EXCEPT ![c] = q[i]]]]

\* df.drop(columns = drop)
DropColumns(t, drop) ==
    LET keep == ColSet(t) \ drop
    IN  [cols  |-> SelectIdx(t.cols, {i \in 1..Len(t.cols) : t.cols[i] \in keep}),
         dtype |-> [c \in keep |-> t.dtype[c]],
         rows  |-> [i \in 1..NRows(t) |-> [c \in keep |-> t.rows[i][c]]]]

\* df[mask]: the rows whose index is in keep, in their order
FilterRows(t, keep) ==
    [cols |-> t.cols, dtype |-> t.dtype, rows |-> SelectIdx(t.rows, keep)]

\* a fillna whose result is not kept
FillNA_Discarded(q, value) == q

\* Series.fillna(value)
FillNA(q, value) == [i \in 1..Len(q) |-> IF IsNA(q[i]) THEN value ELSE q[i]]

\* Series.median(): skips missing entries; NaN when nothing is left
Median(q) ==
    LET v == SortNums(q)
        m == Len(v)
    IN  IF m = 0 THEN NA
        ELSE IF m % 2 = 1 THEN v[(m + 1) \div 2]
        ELSE LET s == NumAdd(v[m \div 2], v[(m \div 2) + 1])
             IN  Num(s.n, 2 * s.d)

\* Series.mean(): skips missing entries; NaN when nothing is left
Mean(q) ==
    IF Len(q) = 0 THEN NA
    ELSE LET s == SeqSum(q) IN Num(s.n, s.d * Len(q))

\* Series.mode(): the most frequent non-missing values, sorted ascending
\* (here: the set of them; ModeFirst is entry [0] of the sorted list)
Modes(q) ==
    LET vals == {q[i] : i \in 1..Len(q)}
        cnt(v) == Cardinality({i \in 1..Len(q) : q[i] = v})
    IN  {v \in vals : \A w \in vals : cnt(w) <= cnt(v)}

\* a choice among tied modes by position: the one that occurs first in the column
ModeFirst_FirstSeen(q) ==
    LET ms == Modes(q)
    IN  q[CHOOSE i \in 1..Len(q) : q[i] \in ms /\ \A j \in 1..(i - 1) : q[j] \notin ms]

ModeFirst(q) ==
    LET ms == Modes(q)
    IN  CHOOSE v \in ms : \A w \in ms : w = v \/ StrLess(v.s, w.s)

(* ------------------------------ load_data ------------------------------ *)
\* the kind pd.read_csv infers for a column of parsed fields
InferDtype(q) ==
    IF Len(q) = 0 THEN "object"
    ELSE IF \E i \in 1..Len(q) : q[i].k = "str" THEN "object"
    ELSE IF \E i \in 1..Len(q) : q[i].k = "na" \/ q[i].d # 1 THEN "float64"
    ELSE "int64"

\* the text of a number: "12" for an integer, "12.5" for a half
NumToStr(c) ==
    CASE c.d = 1 -> NatToStr(c.n)
      [] c.d = 2 -> NatToStr(c.n \div 2) \o <<".", "5">>

\* a field of an object column stays the text it was in the file
AsField(c) == IF c.k = "num" THEN Str(NumToStr(c)) ELSE c

\* pd.read_csv: the table of the file, with inferred kinds
read_csv(f) ==
    LET cs == {f.cols[i] : i \in 1..Len(f.cols)}
        dt == [c \in cs |-> InferDtype([i \in 1..Len(f.rows) |-> f.rows[i][c]])]
    IN  [cols  |-> f.cols,
         dtype |-> dt,
         rows  |-> [i \in 1..Len(f.rows) |->
                      [c \in cs |-> IF dt[c] = "object" THEN AsField(f.rows[i][c])
                                    ELSE f.rows[i][c]]]]

\* load_data: read_csv raises when the file is missing
load_data(f) ==
    IF f.exists THEN [ok |-> TRUE, t |-> read_csv(f)]
    ELSE [ok |-> FALSE, t |-> [cols |-> <<>>, dtype |-> <<>>, rows |-> <<>>]]

(* ------------------------------ handle_missing ------------------------- *)
\* a comparison that also drops a column whose ratio equals the threshold
ExceedsThreshold_AtLeast(miss, len, thr) == len > 0 /\ miss * thr.d >= thr.n * len

\* missing_counts / len(df) > missing_threshold, thr the rational thr.n / thr.d;
\* with no rows the ratio is NaN and the comparison is false
ExceedsThreshold(miss, len, thr) == len > 0 /\ miss * thr.d > thr.n * len

to_drop(df, thr) == {c \in ColSet(df) : ExceedsThreshold(MissingCount(df, c), NRows(df), thr)}

\* the two strategies exchanged
NumericFill_Swapped(q, fill_method) == IF fill_method = "median" THEN Mean(q) ELSE Median(q)

\* the value a column with missing entries is filled with
NumericFill(q, fill_method) == IF fill_method = "median" THEN Median(q) ELSE Mean(q)

\* the imputation loop over the retained columns; mode()[0] raises on a
\* text column with no value at all
FillColumn(t, c, fill_method) ==
    IF MissingCount(t, c) = 0 THEN Column(t, c)
    ELSE IF is_numeric_dtype(t.dtype[c])
         THEN FillNA(Column(t, c), NumericFill(Present(t, c), fill_method))
         ELSE FillNA(Column(t, c), ModeFirst(Present(t, c)))

FillRaises(t, c) ==
    /\ MissingCount(t, c) > 0
    /\ ~is_numeric_dtype(t.dtype[c])
    /\ Present(t, c) = <<>>

handle_missing(df, thr, fill_method) ==
    LET kept == DropColumns(df, to_drop(df, thr))
    IN  IF \E c \in ColSet(kept) : FillRaises(kept, c)
        THEN [ok |-> FALSE, t |-> kept]
        ELSE [ok |-> TRUE,
              t  |-> [cols  |-> kept.cols,
                      dtype |-> kept.dtype,
                      rows  |-> [i \in 1..NRows(kept) |->
                                   [c \in ColSet(kept) |-> FillColumn(kept, c, fill_method)[i]]]]]

(* ------------------------------ remove_duplicates ---------------------- *)
\* df.duplicated(): a row is marked when an earlier row equals it
duplicated(df) == {i \in 1..NRows(df) : \E j \in 1..(i - 1) : df.rows[j] = df.rows[i]}

\* keep = "last" in place of keep = "first"
drop_duplicates_KeepLast(df) ==
    FilterRows(df, {i \in 1..NRows(df) :
                      \A j \in (i + 1)..NRows(df) : df.rows[j] # df.rows[i]})

\* df.drop_duplicates(): keep = "first"
drop_duplicates(df) == FilterRows(df, (1..NRows(df)) \ duplicated(df))

\* a removal that stops after the first duplicate it finds
remove_duplicates_OnePerCall(df) ==
    LET dups == duplicated(df)
        one  == IF dups = {} THEN {} ELSE {CHOOSE i \in dups : \A j \in dups : i <= j}
    IN  [ok |-> TRUE, t |-> FilterRows(df, (1..NRows(df)) \ one),
         dup_count |-> Cardinality(dups)]

remove_duplicates(df) ==
    [ok |-> TRUE, t |-> drop_duplicates(df), dup_count |-> Cardinality(duplicated(df))]

(* ------------------------------ fix_types ------------------------------ *)
cYear == <<"Y","e","a","r">>
cPopulation == <<"P","o","p","u","l","a","t","i","o","n">>
cLatitude == <<"L","a","t","i","t","u","d","e">>
cLongitude == <<"L","o","n","g","i","t","u","d","e">>
cTemperature == <<"T","e","m","p","e","r","a","t","u","r","e">>
cPrecipitation == <<"P","r","e","c","i","p","i","t","a","t","i","o","n">>
cShift_km == <<"S","h","i","f","t","_","k","m">>
cBird_Species == <<"B","i","r","d","_","S","p","e","c","i","e","s">>
cCountry == <<"C","o","u","n","t","r","y">>

type_map ==
    << <<cYear, "Int64">>, <<cPopulation, "Int64">>, <<cLatitude, "Float64">>,
       <<cLongitude, "Float64">>, <<cTemperature, "Float64">>,
       <<cPrecipitation, "Float64">>, <<cShift_km, "Float64">> >>

\* a cast that truncates fractions instead of refusing them
CastOk_Truncating(df, col, target) ==
    \A i \in 1..NRows(df) : df.rows[i][col].k # "str"

\* whether df[col].astype(target) succeeds: a text that is no number cannot
\* be cast, and a float column casts to Int64 only when all values are whole
CastOk(df, col, target) ==
    /\ \A i \in 1..NRows(df) : df.rows[i][col].k # "str"
    /\ target = "Int64" => \A i \in 1..NRows(df) : df.rows[i][col].d = 1

\* one iteration of the loop: cast when present, keep the column on failure
CastColumn(df, col, target) ==
    IF HasCol(df, col) /\ CastOk(df, col, target)
    THEN [df EXCEPT !.dtype[col] = target]
    ELSE df

\* a loop that gives up at the first column it cannot cast
RECURSIVE CastFrom_StopsAtFailure(_, _)
CastFrom_StopsAtFailure(df, k) ==
    IF k > Len(type_map) THEN df
    ELSE IF HasCol(df, type_map[k][1]) /\ ~CastOk(df, type_map[k][1], type_map[k][2])
         THEN df
         ELSE CastFrom_StopsAtFailure(CastColumn(df, type_map[k][1], type_map[k][2]), k + 1)

\* for col, dtype in type_map.items(): the loop from its k-th entry on
RECURSIVE CastFrom(_, _)
CastFrom(df, k) ==
    IF k > Len(type_map) THEN df
    ELSE CastFrom(CastColumn(df, type_map[k][1], type_map[k][2]), k + 1)

fix_types(df) == [ok |-> TRUE, t |-> CastFrom(df, 1)]

(* ------------------------------ validate_ranges ------------------------ *)
DefaultYearRange == <<1970, 2025>>

\* a comparison that is False on a text instead of raising
CompareRaises_Never(df, col) == FALSE

\* df["Year"] >= yr_min raises TypeError when a text is compared with an int
CompareRaises(df, col) == \E i \in 1..NRows(df) : df.rows[i][col].k = "str"

\* an upper bound that is exclusive
InRange_ExclusiveUpper(c, yr_min, yr_max) ==
    /\ c.k = "num"
    /\ NumLeq(IntCell(yr_min), c)
    /\ NumLess(c, IntCell(yr_max))

\* (df["Year"] >= yr_min) & (df["Year"] <= yr_max); a missing year is False
InRange(c, yr_min, yr_max) ==
    /\ c.k = "num"
    /\ NumLeq(IntCell(yr_min), c)
    /\ NumLeq(c, IntCell(yr_max))

\* a filter that finds the year column under its lower-case name as well
validate_ranges_AnyCase(df, year_range) ==
    LET found == {c \in ColSet(df) : StrLower(c) = StrLower(cYear)}
    IN  IF found = {} THEN [ok |-> TRUE, t |-> df, removed |-> 0]
        ELSE LET col == CHOOSE c \in found : TRUE
                 res == FilterRows(df, {i \in 1..NRows(df) :
                                          InRange(df.rows[i][col], year_range[1], year_range[2])})
             IN  [ok |-> ~CompareRaises(df, col), t |-> res, removed |-> NRows(df) - NRows(res)]

validate_ranges(df, year_range) ==
    LET yr_min == year_range[1]
        yr_max == year_range[2]
    IN  IF ~HasCol(df, cYear) THEN [ok |-> TRUE, t |-> df, removed |-> 0]
        ELSE IF CompareRaises(df, cYear) THEN [ok |-> FALSE, t |-> df, removed |-> 0]
        ELSE LET res == FilterRows(df, {i \in 1..NRows(df) :
                                          InRange(df.rows[i][cYear], yr_min, yr_max)})
             IN  [ok |-> TRUE, t |-> res, removed |-> NRows(df) - NRows(res)]

(* ------------------------------ clean_text ----------------------------- *)
text_cols == <<cBird_Species, cCountry>>

\* Series.astype(str) on one cell of a column of kind dt
astype_str(c, dt) ==
    CASE c.k = "str" -> c.s
      [] c.k = "na"  -> <<"n", "a", "n">>
      [] c.k = "num" /\ dt \in {"int64", "Int64"} -> NumToStr(c)
      [] c.k = "num" /\ dt \notin {"int64", "Int64"} ->
            IF c.d = 1 THEN NatToStr(c.n) \o <<".", "0">> ELSE NumToStr(c)

\* .astype(str).str.strip().str.title() on one cell
CleanCell(c, dt) == Str(StrTitle(StrStrip(astype_str(c, dt))))

CleanColumn(df, col) ==
    IF HasCol(df, col)
    THEN SetColumn(df, col,
                   [i \in 1..NRows(df) |-> CleanCell(df.rows[i][col], df.dtype[col])],
                   "object")
    ELSE df

RECURSIVE CleanFrom(_, _)
CleanFrom(df, k) ==
    IF k > Len(text_cols) THEN df
    ELSE CleanFrom(CleanColumn(df, text_cols[k]), k + 1)

clean_text(df) == [ok |-> TRUE, t |-> CleanFrom(df, 1)]

(* ------------------------------ lowercase_columns ---------------------- *)
\* a stage that leaves the headers as they are
lowercase_columns_Skipped(df) == [ok |-> TRUE, t |-> df]

\* df.columns = df.columns.str.lower()
lowercase_columns(df) ==
    LET low == {StrLower(c) : c \in ColSet(df)}
        src(l) == CHOOSE c \in ColSet(df) : StrLower(c) = l
    IN  [ok |-> TRUE,
         t  |-> [cols  |-> [i \in 1..Len(df.cols) |-> StrLower(df.cols[i])],
                 dtype |-> [l \in low |-> df.dtype[src(l)]],
                 rows  |-> [i \in 1..NRows(df) |-> [l \in low |-> df.rows[i][src(l)]]]]]

(* ------------------------------ the cleaned file ----------------------- *)
\* to_csv: the text written for a cell of a column of kind dt
Written(c, dt) ==
    CASE c.k = "str" -> c.s
      [] c.k = "na"  -> <<>>
      [] c.k = "num" -> IF c.d = 1 /\ dt \in {"float64", "Float64"}
                        THEN NatToStr(c.n) \o <<".", "0">>
                        ELSE NumToStr(c)

IsDigit(c) == \E i \in 1..10 : DigitChars[i] = c

IsDigits(s) == s # <<>> /\ \A i \in 1..Len(s) : IsDigit(s[i])

RECURSIVE ParseNat(_)
ParseNat(s) ==
    IF s = <<>> THEN 0
    ELSE 10 * ParseNat(SubSeq(s, 1, Len(s) - 1)) + (CharCode(s[Len(s)]) - CharCode("0"))

\* read_csv: the value of one field; an empty field is missing, a text that
\* is no number stays text
ParseField(s) ==
    IF s = <<>> THEN NA
    ELSE IF IsDigits(s) THEN IntCell(ParseNat(s))
    ELSE IF /\ Len(s) >= 3
            /\ s[Len(s) - 1] = "."
            /\ s[Len(s)] \in {"0", "5"}
            /\ IsDigits(SubSeq(s, 1, Len(s) - 2))
         THEN Num(2 * ParseNat(SubSeq(s, 1, Len(s) - 2)) + (IF s[Len(s)] = "5" THEN 1 ELSE 0), 2)
    ELSE Str(s)

\* pd.read_csv("./data/cleaned_bird_data.csv") on what to_csv wrote there
read_cleaned(f) ==
    LET cs == {f.header[i] : i \in 1..Len(f.header)}
        n == Len(f.rows)
        text == [i \in 1..n |-> [c \in cs |-> Written(f.rows[i][c], f.dtype[c])]]
        field == [i \in 1..n |-> [c \in cs |-> ParseField(text[i][c])]]
        kind == [c \in cs |->
                   IF n = 0 THEN "object"
                   ELSE IF \E i \in 1..n : field[i][c].k = "str" THEN "object"
                   ELSE IF \E i \in 1..n : text[i][c] = <<>> \/ ~IsDigits(text[i][c])
                        THEN "float64"
                   ELSE "int64"]
    IN  [cols  |-> f.header,
         dtype |-> kind,
         rows  |-> [i \in 1..n |->
                      [c \in cs |-> IF text[i][c] = <<>> THEN NA
                                    ELSE IF kind[c] = "object" THEN Str(text[i][c])
                                    ELSE field[i][c]]]]

(* ------------------------------ aggregators ---------------------------- *)
\* the column names of the cleaned table and of the summary tables
lYear == StrLower(cYear)
lPopulation == StrLower(cPopulation)
lTemperature == StrLower(cTemperature)
lPrecipitation == StrLower(cPrecipitation)
lShift_km == StrLower(cShift_km)
lBird_Species == StrLower(cBird_Species)
lCountry == StrLower(cCountry)
lTraffic == <<"t","r","a","f","f","i","c">>
cMaxShift == <<"m","a","x","_","s","h","i","f","t","_","k","m">>
cPopulationAtMax ==
    <<"p","o","p","u","l","a","t","i","o","n","_","a","t","_","m","a","x","_","s","h","i","f","t">>
cTemperatureAtMax ==
    <<"t","e","m","p","e","r","a","t","u","r","e","_","a","t","_","m","a","x","_","s","h","i","f","t">>

\* the order sorted() and the group keys put two values of a column in
CellLess(x, y) == IF x.k = "num" /\ y.k = "num" THEN NumLess(x, y) ELSE StrLess(x.s, y.s)

\* sorted(set(...)): the values of the set S in ascending order
RECURSIVE SortCells(_)
SortCells(S) ==
    IF S = {} THEN <<>>
    ELSE LET m == CHOOSE x \in S : \A y \in S : ~CellLess(y, x)
         IN  <<m>> \o SortCells(S \ {m})

\* a table built from rows, its kinds inferred from the values
MakeTable(cols, rows) ==
    [cols  |-> cols,
     dtype |-> [c \in {cols[i] : i \in 1..Len(cols)} |->
                  InferDtype([i \in 1..Len(rows) |-> rows[i][c]])],
     rows  |-> rows]

\* an aggregate that averages the group
GroupTotal_Mean(q) == Mean(q)

\* .sum() of one group
GroupTotal(q) == SeqSum(q)

\* a sort that leaves the rows in the order they were collected
sort_values_Unsorted(rows, by) == rows

\* DataFrame.sort_values(by): ascending; on tables this short the sort keeps
\* rows with equal keys in their order
RECURSIVE sort_values(_, _)
sort_values(rows, by) ==
    IF rows = <<>> THEN <<>>
    ELSE LET i == CHOOSE a \in 1..Len(rows) :
                      /\ \A b \in 1..Len(rows) : ~CellLess(rows[b][by], rows[a][by])
                      /\ \A b \in 1..(a - 1) : CellLess(rows[a][by], rows[b][by])
         IN  <<rows[i]>> \o sort_values(SelectIdx(rows, (1..Len(rows)) \ {i}), by)

\* the indices of the rows of df that hold the value v in column c
RowsWith(df, c, v) == {i \in 1..NRows(df) : df.rows[i][c] = v}

\* a pivot that puts zero where a species has no group in a year
PopulationPivot_ZeroFill(df) ==
    LET species == SortCells({df.rows[i][lBird_Species] : i \in 1..NRows(df)})
        years   == SortCells({df.rows[i][lYear] : i \in 1..NRows(df)})
        names   == [j \in 1..Len(species) |-> species[j].s]
        group(sp, y) == RowsWith(df, lBird_Species, sp) \cap RowsWith(df, lYear, y)
        total(sp, y) == GroupTotal(SelectIdx(Column(df, lPopulation), group(sp, y)))
    IN  MakeTable(<<lYear>> \o names,
                  [k \in 1..Len(years) |->
                     (lYear :> years[k]) @@
                     [n \in {names[j] : j \in 1..Len(names)} |-> total(Str(n), years[k])]])

\* df.groupby(["bird_species", "year"])["population"].sum().reset_index()
\* followed by pivot(index="year", columns="bird_species"): one row per year
\* of the groups, one column per species, missing where there is no group
PopulationPivot(df) ==
    LET species == SortCells({df.rows[i][lBird_Species] : i \in 1..NRows(df)})
        years   == SortCells({df.rows[i][lYear] : i \in 1..NRows(df)})
        names   == [j \in 1..Len(species) |-> species[j].s]
        group(sp, y) == RowsWith(df, lBird_Species, sp) \cap RowsWith(df, lYear, y)
        total(sp, y) == GroupTotal(SelectIdx(Column(df, lPopulation), group(sp, y)))
    IN  MakeTable(<<lYear>> \o names,
                  [k \in 1..Len(years) |->
                     (lYear :> years[k]) @@
                     [n \in {names[j] : j \in 1..Len(names)} |->
                        LET sp == Str(n)
                        IN  IF group(sp, years[k]) = {} THEN NA ELSE total(sp, years[k])]])

\* df.groupby("year")[["temperature", "precipitation", "traffic"]].mean().reset_index()
ClimateAverages(df) ==
    LET years == SortCells({df.rows[i][lYear] : i \in 1..NRows(df)})
        avg(c, y) == Mean(SelectIdx(Column(df, c), RowsWith(df, lYear, y)))
    IN  MakeTable(<<lYear, lTemperature, lPrecipitation, lTraffic>>,
                  [k \in 1..Len(years) |->
                     (lYear :> years[k]) @@ (lTemperature :> avg(lTemperature, years[k]))
                     @@ (lPrecipitation :> avg(lPrecipitation, years[k]))
                     @@ (lTraffic :> avg(lTraffic, years[k]))])

\* pd.merge(left, right, on="year", how="inner"): the pairs of rows with
\* equal year, in the order of the left table
RECURSIVE MergeRows(_, _, _)
MergeRows(left, right, k) ==
    IF k > NRows(left) THEN <<>>
    ELSE LET hits == SelectIdx(right.rows, RowsWith(right, lYear, left.rows[k][lYear]))
         IN  [j \in 1..Len(hits) |-> left.rows[k] @@ hits[j]] \o MergeRows(left, right, k + 1)

MergeOnYear(left, right) ==
    MakeTable(left.cols \o Tail(right.cols), MergeRows(left, right, 1))

\* a call that also sorts the caller's table by year, in place
model_data_spyros_SortsInPlace(df) ==
    IF ~({lBird_Species, lYear, lPopulation, lTemperature, lPrecipitation, lTraffic}
            \subseteq ColSet(df))
    THEN [ok |-> FALSE, t |-> MakeTable(<<>>, <<>>), df |-> df]
    ELSE [ok |-> TRUE, t |-> MergeOnYear(PopulationPivot(df), ClimateAverages(df)),
          df |-> [df EXCEPT !.rows = sort_values(df.rows, lYear)]]

\* the result record holds the table returned (t) and the caller's table as
\* the call leaves it (df); a missing column is a KeyError
model_data_spyros(df) ==
    IF ~({lBird_Species, lYear, lPopulation, lTemperature, lPrecipitation, lTraffic}
            \subseteq ColSet(df))
    THEN [ok |-> FALSE, t |-> MakeTable(<<>>, <<>>), df |-> df]
    ELSE [ok |-> TRUE, t |-> MergeOnYear(PopulationPivot(df), ClimateAverages(df)), df |-> df]

\* the rows of every year of the country and species
annual_data_AllYears(df, country, species, year) ==
    RowsWith(df, lCountry, country) \cap RowsWith(df, lBird_Species, species)

\* a filter on country and year that takes the rows of every species
annual_data_AnySpecies(df, country, species, year) ==
    RowsWith(df, lCountry, country) \cap RowsWith(df, lYear, year)

\* country_species_df[country_species_df["year"] == year], as row indices
annual_data(df, country, species, year) ==
    RowsWith(df, lCountry, country) \cap RowsWith(df, lBird_Species, species)
        \cap RowsWith(df, lYear, year)

\* a selection of the last row, in table order, that holds the maximum
idxmax_Last(df, idx, c) ==
    CHOOSE i \in idx :
        /\ \A j \in idx : ~NumLess(df.rows[i][c], df.rows[j][c])
        /\ \A j \in idx : j > i => NumLess(df.rows[j][c], df.rows[i][c])

\* Series.idxmax(): the first row, in table order, that holds the maximum
idxmax(df, idx, c) ==
    CHOOSE i \in idx :
        /\ \A j \in idx : ~NumLess(df.rows[i][c], df.rows[j][c])
        /\ \A j \in idx : j < i => NumLess(df.rows[j][c], df.rows[i][c])

\* a frame that has the column whatever it was built from
HasSortColumn_Always(records, by) == TRUE

\* pd.DataFrame(records) takes its columns from the records: built from an
\* empty list it has no column, and sort_values(by) raises KeyError
HasSortColumn(records, by) == records # <<>>

\* the (country, species, year) combinations in the order the three nested
\* loops visit them
LoopOrder(country_list, bird_species_list, year_list) ==
    LET ns == Len(bird_species_list)
        ny == Len(year_list)
    IN  [n \in 1..(Len(country_list) * ns * ny) |->
            << country_list[((n - 1) \div (ns * ny)) + 1],
               bird_species_list[(((n - 1) \div ny) % ns) + 1],
               year_list[((n - 1) % ny) + 1] >>]

get_bird_shift_climate_and_land_usage_data(df) ==
    LET failed == [ok |-> FALSE, t |-> MakeTable(<<>>, <<>>), df |-> df]
    IN  IF ~({lCountry, lBird_Species, lYear} \subseteq ColSet(df)) THEN failed
        ELSE
        LET country_list == SortCells({df.rows[i][lCountry] : i \in 1..NRows(df)})
            bird_species_list == SortCells({df.rows[i][lBird_Species] : i \in 1..NRows(df)})
            year_list == SortCells({df.rows[i][lYear] : i \in 1..NRows(df)})
            visits == LoopOrder(country_list, bird_species_list, year_list)
            found == SelectIdx(visits, {n \in 1..Len(visits) :
                        annual_data(df, visits[n][1], visits[n][2], visits[n][3]) # {}})
        IN  IF found # <<>> /\ ~({lShift_km, lPopulation, lTemperature} \subseteq ColSet(df))
            THEN failed
            ELSE
            LET stats_by_year ==
                    [n \in 1..Len(found) |->
                        LET max_row == df.rows[idxmax(df, annual_data(df, found[n][1], found[n][2],
                                                                      found[n][3]), lShift_km)]
                        IN  (lCountry :> found[n][1]) @@ (lBird_Species :> found[n][2])
                            @@ (lYear :> found[n][3]) @@ (cMaxShift :> max_row[lShift_km])
                            @@ (cPopulationAtMax :> max_row[lPopulation])
                            @@ (cTemperatureAtMax :> max_row[lTemperature])]
            IN  IF ~HasSortColumn(stats_by_year, lYear) THEN failed
                ELSE [ok |-> TRUE,
                      t  |-> MakeTable(<<lCountry, lBird_Species, lYear, cMaxShift,
                                         cPopulationAtMax, cTemperatureAtMax>>,
                                       sort_values(stats_by_year, lYear)),
                      df |-> df]

\* the names src/data/cleaner.py defines
DataCleanerNames ==
    {"load_data", "handle_missing", "remove_duplicates", "fix_types", "validate_ranges",
     "clean_text", "lowercase_columns", "clean_bird_data", "model_data_spyros",
     "get_bird_shift_climate_and_land_usage_data"}

\* from data.cleaner import clean_bird_data, model_data_mahfuz
MahfuzImports == {"clean_bird_data", "model_data_mahfuz"}

\* build_species_per_country_table returns model_data_mahfuz(df); the import
\* of a name the cleaner does not define raises, and then there is neither
\* the function nor a table it could return
build_species_per_country_table(df) ==
    [ok |-> MahfuzImports \subseteq DataCleanerNames, t |-> MakeTable(<<>>, <<>>), df |-> df]

(* ------------------------------ inputs --------------------------------- *)
tAsianKoelRaw == <<" "," ","a","s","i","a","n"," ","k","o","e","l"," "," ">>
tAsianKoel == <<"A","s","i","a","n"," ","K","o","e","l">>

\* the fields a column of an input file is drawn from
YearFields == {IntCell(1969), IntCell(1970), IntCell(2025), IntCell(2026), NA}
YearTextFields == {IntCell(1970), IntCell(2026), Str(<<"x">>)}
SpeciesFields == {Str(tAsianKoelRaw), Str(tAsianKoel), NA}
CountryFields == {Str(<<"b"," ","a">>), Str(<<" ","B"," ","a">>), NA}
PopulationFields == {IntCell(1), IntCell(2), NA, Str(<<"x">>)}
TemperatureFields == {Num(5, 2), Str(<<"h","o","t">>)}

\* the file layouts: header, fields per column, largest number of rows
Layouts ==
    { [cols |-> <<cYear>>, dom |-> (cYear :> YearFields), maxrows |-> MaxRowsNarrow],
      [cols |-> <<cCountry>>, dom |-> (cCountry :> CountryFields), maxrows |-> MaxRowsNarrow],
      [cols |-> <<cYear, cBird_Species>>,
       dom |-> (cYear :> YearTextFields) @@ (cBird_Species :> SpeciesFields),
       maxrows |-> MaxRowsWide],
      [cols |-> <<cPopulation, cTemperature>>,
       dom |-> (cPopulation :> PopulationFields) @@ (cTemperature :> TemperatureFields),
       maxrows |-> MaxRowsWide] }

\* a file whose header is already lower-case
LowerLayouts ==
    { [cols |-> <<StrLower(cYear), StrLower(cBird_Species)>>,
       dom |-> (StrLower(cYear) :> {IntCell(1970), IntCell(2026), NA})
               @@ (StrLower(cBird_Species) :> {Str(tAsianKoelRaw), Str(tAsianKoel)}),
       maxrows |-> MaxRowsWide] }

LayoutRows(l) ==
    LET cs == DOMAIN l.dom
        all == UNION {l.dom[c] : c \in cs}
    IN  {r \in [cs -> all] : \A c \in cs : r[c] \in l.dom[c]}

LayoutFiles(l) ==
    UNION { {[exists |-> TRUE, cols |-> l.cols, rows |-> rs] : rs \in [1..n -> LayoutRows(l)]}
            : n \in 0..l.maxrows }

MissingFile == [exists |-> FALSE, cols |-> <<>>, rows |-> <<>>]

\* five-row files: three regular observations, one row repeated, one
\* observation of a year outside 1970..2025, and one missing numeric cell
tCrowRaw == <<"h","O","U","S","E"," ","c","r","o","w">>
tMynaRaw == <<" ","c","o","m","m","o","n"," ","M","Y","N","A">>

Observation(year, pop, species) ==
    (cYear :> IntCell(year)) @@ (cPopulation :> IntCell(pop)) @@ (cBird_Species :> Str(species))

\* the cyclic shift of the sequence q by k places
Rotate(q, k) == [i \in 1..Len(q) |-> q[((i + k - 1) % Len(q)) + 1]]

NumericCols == {cYear, cPopulation}

\* near: the second observation differs from the first in its missing cell only
EndToEndFiles ==
    { [exists |-> TRUE,
       cols   |-> <<cYear, cPopulation, cBird_Species>>,
       rows   |-> Rotate(
           LET obs  == << Observation(2000, 10, tAsianKoelRaw),
                          IF near THEN Observation(2000, 10, tAsianKoelRaw)
                                  ELSE Observation(2001, 20, tCrowRaw),
                          Observation(2002, 10, tMynaRaw),
                          Observation(badyear, 30, tAsianKoel) >>
               four == [obs EXCEPT ![gap][gapcol] = NA]
           IN  <<four[1], four[2], four[4], four[3], four[dup]>>, k)]
      : dup \in 1..4, gap \in 1..4, gapcol \in NumericCols, near \in BOOLEAN,
        badyear \in {1969, 2026}, k \in 0..4 }

\* the shape of those files, told from their rows: five rows, exactly one
\* of them a repetition of an earlier row, exactly one with a year outside
\* 1970..2025, exactly one missing cell and that in a numeric column, and a
\* text column whose values are not yet stripped and title-cased
IsEndToEndFixture(f) ==
    /\ f.exists
    /\ f.cols = <<cYear, cPopulation, cBird_Species>>
    /\ Len(f.rows) = 5
    /\ Cardinality({i \in 1..5 : \E j \in 1..(i - 1) : f.rows[j] = f.rows[i]}) = 1
    /\ Cardinality({i \in 1..5 : /\ f.rows[i][cYear].k = "num"
                                 /\ ~InRange(f.rows[i][cYear], DefaultYearRange[1],
                                             DefaultYearRange[2])}) = 1
    /\ Cardinality({<<i, c>> \in (1..5) \X NumericCols : IsNA(f.rows[i][c])}) = 1
    /\ \A i \in 1..5 : /\ f.rows[i][cBird_Species].k = "str"
                        /\ \A c \in NumericCols : f.rows[i][c].k \in {"num", "na"}
    /\ \E i \in 1..5 : LET v == f.rows[i][cBird_Species].s
                        IN  StrTitle(StrStrip(v)) # v

\* the years on both sides of each end of the default range
YearBoundsFile ==
    [exists |-> TRUE, cols |-> <<cYear>>,
     rows |-> [i \in 1..4 |-> (cYear :> IntCell(<<1969, 1970, 2025, 2026>>[i]))]]

InputFiles ==
    UNION {LayoutFiles(l) : l \in Layouts \cup LowerLayouts}
        \cup {YearBoundsFile}
        \cup {f \in EndToEndFiles : IsEndToEndFixture(f)}
        \cup {MissingFile}

\* cleaned files as an earlier run may have left them: readings of one
\* species in one country in two years and of another species in another
\* country; two readings of the first year tie on shift_km and differ in
\* everything else
tIndia == <<"I","n","d","i","a">>
tJapan == <<"J","a","p","a","n">>
tHouseCrow == <<"H","o","u","s","e"," ","C","r","o","w">>

CleanedHeader ==
    <<lCountry, lBird_Species, lYear, lPopulation, lTemperature, lPrecipitation, lTraffic, lShift_km>>

Reading(country, species, year, shift, high) ==
    (lCountry :> Str(country)) @@ (lBird_Species :> Str(species)) @@ (lYear :> IntCell(year))
    @@ (lShift_km :> IntCell(shift))
    @@ (lPopulation :> IntCell(IF high THEN 2 ELSE 1))
    @@ (lTemperature :> IntCell(IF high THEN 20 ELSE 10))
    @@ (lPrecipitation :> IntCell(IF high THEN 6 ELSE 5))
    @@ (lTraffic :> IntCell(IF high THEN 9 ELSE 7))

CleanedRows ==
    { Reading(tIndia, tAsianKoel, 2000, 10, FALSE), Reading(tIndia, tAsianKoel, 2000, 45, FALSE),
      Reading(tIndia, tAsianKoel, 2000, 45, TRUE),
      Reading(tIndia, tAsianKoel, 2001, 10, FALSE), Reading(tIndia, tAsianKoel, 2001, 45, TRUE),
      Reading(tJapan, tHouseCrow, 2000, 10, FALSE) }

CleanedFiles ==
    UNION { {[exists |-> TRUE, header |-> CleanedHeader,
              dtype  |-> [c \in {CleanedHeader[i] : i \in 1..Len(CleanedHeader)} |->
                            IF c \in {lCountry, lBird_Species} THEN "object"
                            ELSE IF c \in {lYear, lPopulation} THEN "Int64" ELSE "Float64"],
              rows   |-> rs, index |-> FALSE] : rs \in [1..n -> CleanedRows]}
            : n \in 0..MaxRowsCleaned }

\* the parameters the stages are called with
DefaultThreshold == [n |-> 1, d |-> 2]
Thresholds == {[n |-> 0, d |-> 1], DefaultThreshold, [n |-> 1, d |-> 1]}
FillMethods == {"median", "mean"}
YearRanges == {DefaultYearRange, <<1970, 1970>>}

(* ------------------------------ state ---------------------------------- *)
VARIABLES
    raw,     \* the input file
    pc,      \* what runs next
    op,      \* the entry point that was called
    args,    \* its parameters
    tin,     \* the table a stage was called on
    df,      \* the table threaded through clean_bird_data
    stages,  \* the stages clean_bird_data has run, in order
    file,    \* the output file src/data/cleaned_bird_data.csv
    prior,   \* that file as it was before the run
    ret,     \* what the call returned
    out,     \* the result record of the stage called on its own
    out2,    \* the result of calling that stage again on its own output
    dash,    \* the table read from the cleaned file and passed to the aggregators
    agg,     \* the last aggregator call: its name and what it returned
    seen     \* what each aggregator returned when it was first called

vars == <<raw, pc, op, args, tin, df, stages, file, prior, ret, out, out2, dash, agg, seen>>

NoTable == [cols |-> <<>>, dtype |-> <<>>, rows |-> <<>>]
NoFile == [exists |-> FALSE, header |-> <<>>, dtype |-> <<>>, rows |-> <<>>, index |-> FALSE]
Aggregators == {"model_data_spyros", "get_bird_shift_climate_and_land_usage_data"}
NoCall == [called |-> FALSE, ok |-> FALSE, t |-> NoTable]
NoResult == [ok |-> FALSE, t |-> NoTable]
\* what an earlier run left at the output location
OldFile ==
    [exists |-> TRUE, header |-> <<StrLower(cYear)>>, dtype |-> (StrLower(cYear) :> "Int64"),
     rows |-> <<(StrLower(cYear) :> IntCell(2000))>>, index |-> FALSE]

NoArgs == [thr |-> DefaultThreshold, fill_method |-> "median", year_range |-> DefaultYearRange]

\* the inputs of a run that finds the file of an earlier run in place
RerunInputs == {f \in InputFiles : f.cols = <<cYear, cBird_Species>> \/ ~f.exists}

Init ==
    /\ \/ raw \in InputFiles /\ file = NoFile
       \/ raw \in RerunInputs /\ file = OldFile
       \/ raw = MissingFile /\ file \in CleanedFiles
    /\ pc = "start"
    /\ op = "none"
    /\ args = NoArgs
    /\ tin = NoTable
    /\ df = NoTable
    /\ stages = <<>>
    /\ prior = file
    /\ dash = NoTable
    /\ agg = [fn |-> "none", ok |-> FALSE, t |-> NoTable]
    /\ seen = [fn \in Aggregators |-> NoCall]
    /\ ret = [returned |-> FALSE, t |-> NoTable]
    /\ out = NoResult
    /\ out2 = NoResult

(* ------------------------------ clean_bird_data ------------------------ *)
\* a body that carries on with the next stage after a stage has raised
RunStage_Swallows(here, name, r, next) ==
    /\ pc = here
    /\ stages' = Append(stages, name)
    /\ df' = IF r.ok THEN r.t ELSE df
    /\ pc' = next
    /\ UNCHANGED <<raw, args, tin, file, prior, ret, out, out2, dash, agg, seen>>

\* one stage of the body: df = stage(df); an exception leaves the function
RunStage(here, name, r, next) ==
    /\ pc = here
    /\ stages' = Append(stages, name)
    /\ IF r.ok THEN df' = r.t /\ pc' = next
               ELSE df' = df /\ pc' = "raised"
    /\ UNCHANGED <<raw, args, tin, file, prior, ret, out, out2, dash, agg, seen>>

\* clean_bird_data of src/data/cleaner.py
StepLoad ==
    /\ op' = "clean_bird_data"
    /\ RunStage("start", "load_data", load_data(raw), "handle_missing")

\* clean_bird_data of src/analysis/cleaner.py: the same stages up to
\* clean_text, no lowercase_columns, the same output location
StepLoadAnalysis ==
    /\ op' = "analysis.clean_bird_data"
    /\ RunStage("start", "load_data", load_data(raw), "handle_missing")

StepHandleMissing ==
    /\ RunStage("handle_missing", "handle_missing",
                handle_missing(df, DefaultThreshold, "median"), "remove_duplicates")
    /\ UNCHANGED op

\* a body that goes from remove_duplicates straight to validate_ranges
StepRemoveDuplicates_SkipsFixTypes ==
    /\ RunStage("remove_duplicates", "remove_duplicates", remove_duplicates(df), "validate_ranges")
    /\ UNCHANGED op

StepRemoveDuplicates ==
    /\ RunStage("remove_duplicates", "remove_duplicates", remove_duplicates(df), "fix_types")
    /\ UNCHANGED op

StepFixTypes ==
    /\ RunStage("fix_types", "fix_types", fix_types(df), "validate_ranges")
    /\ UNCHANGED op

StepValidateRanges ==
    /\ RunStage("validate_ranges", "validate_ranges",
                validate_ranges(df, DefaultYearRange), "clean_text")
    /\ UNCHANGED op

StepCleanText ==
    /\ RunStage("clean_text", "clean_text", clean_text(df),
                IF op = "clean_bird_data" THEN "lowercase_columns" ELSE "to_csv")
    /\ UNCHANGED op

StepLowercaseColumns ==
    /\ RunStage("lowercase_columns", "lowercase_columns", lowercase_columns(df), "to_csv")
    /\ UNCHANGED op

\* df.to_csv(output_path, index=False); return df
StepSave ==
    /\ pc = "to_csv"
    /\ file' = [exists |-> TRUE, header |-> df.cols, dtype |-> df.dtype, rows |-> df.rows,
                index |-> FALSE]
    /\ ret' = [returned |-> TRUE, t |-> df]
    /\ pc' = "returned"
    /\ UNCHANGED <<raw, op, args, tin, df, stages, prior, out, out2, dash, agg, seen>>

(* ------------------------------ stages called on their own ------------- *)
Call(name, a, r) ==
    /\ pc = "start"
    /\ raw.exists
    /\ op' = name
    /\ args' = a
    /\ tin' = read_csv(raw)
    /\ out' = r
    /\ pc' = "called"
    /\ UNCHANGED <<raw, df, stages, file, prior, ret, out2, dash, agg, seen>>

CallHandleMissing ==
    \E thr \in Thresholds, m \in FillMethods :
        Call("handle_missing", [NoArgs EXCEPT !.thr = thr, !.fill_method = m],
             handle_missing(read_csv(raw), thr, m))

CallRemoveDuplicates ==
    Call("remove_duplicates", NoArgs, remove_duplicates(read_csv(raw)))

CallValidateRanges ==
    \E yr \in YearRanges :
        Call("validate_ranges", [NoArgs EXCEPT !.year_range = yr],
             validate_ranges(read_csv(raw), yr))

CallCleanText ==
    Call("clean_text", NoArgs, clean_text(read_csv(raw)))

CallFixTypes ==
    Call("fix_types", NoArgs, fix_types(read_csv(raw)))

\* the same stage applied to its own output
CallAgain ==
    /\ pc = "called"
    /\ out.ok
    /\ op \in {"remove_duplicates", "clean_text"}
    /\ out2' = IF op = "remove_duplicates" THEN remove_duplicates(out.t) ELSE clean_text(out.t)
    /\ pc' = "called_again"
    /\ UNCHANGED <<raw, op, args, tin, df, stages, file, prior, ret, out, dash, agg, seen>>

(* ------------------------------ the aggregators on the cleaned file --- *)
\* df = pd.read_csv("./data/cleaned_bird_data.csv"), in a process of its
\* own: of a cleaning run it has the output file only, the input and the
\* locals of that run are gone
ReadCleaned ==
    /\ pc \in {"start", "returned"}
    /\ file.exists
    /\ dash' = read_cleaned(file)
    /\ op' = "aggregate"
    /\ pc' = "dash"
    /\ raw' = MissingFile
    /\ args' = NoArgs
    /\ tin' = NoTable
    /\ df' = NoTable
    /\ stages' = <<>>
    /\ prior' = file
    /\ ret' = [returned |-> FALSE, t |-> NoTable]
    /\ out' = NoResult
    /\ out2' = NoResult
    /\ UNCHANGED <<file, agg, seen>>

\* one call fn(df) on the table that was read
Aggregate(fn, r) ==
    /\ pc = "dash"
    /\ agg' = [fn |-> fn, ok |-> r.ok, t |-> r.t]
    /\ dash' = r.df
    /\ seen' = IF fn \in Aggregators /\ ~seen[fn].called
               THEN [seen EXCEPT ![fn] = [called |-> TRUE, ok |-> r.ok, t |-> r.t]]
               ELSE seen
    /\ UNCHANGED <<raw, pc, op, args, tin, df, stages, file, prior, ret, out, out2>>

CallModelDataSpyros ==
    Aggregate("model_data_spyros", model_data_spyros(dash))

CallGetBirdShift ==
    Aggregate("get_bird_shift_climate_and_land_usage_data",
              get_bird_shift_climate_and_land_usage_data(dash))

CallBuildSpeciesPerCountryTable ==
    Aggregate("build_species_per_country_table", build_species_per_country_table(dash))

Next ==
    \/ StepLoad
    \/ StepLoadAnalysis
    \/ StepHandleMissing
    \/ StepRemoveDuplicates
    \/ StepFixTypes
    \/ StepValidateRanges
    \/ StepCleanText
    \/ StepLowercaseColumns
    \/ StepSave
    \/ CallHandleMissing
    \/ CallRemoveDuplicates
    \/ CallValidateRanges
    \/ CallCleanText
    \/ CallFixTypes
    \/ ReadCleaned
    \/ CallModelDataSpyros
    \/ CallGetBirdShift
    \/ CallBuildSpeciesPerCountryTable
    \/ CallAgain

Spec == Init /\ [][Next]_vars

(* ------------------------------ properties ----------------------------- *)
\* the table clean_bird_data holds after its first k stages, computed from
\* the input file by composing the stages
PipelineOrder ==
    <<"load_data", "handle_missing", "remove_duplicates", "fix_types",
      "validate_ranges", "clean_text", "lowercase_columns">>

RECURSIVE AfterStages(_, _)
AfterStages(f, k) ==
    IF k = 1 THEN load_data(f).t
    ELSE LET prev == AfterStages(f, k - 1)
         IN  CASE k = 2 -> handle_missing(prev, DefaultThreshold, "median").t
               [] k = 3 -> remove_duplicates(prev).t
               [] k = 4 -> fix_types(prev).t
               [] k = 5 -> validate_ranges(prev, DefaultYearRange).t
               [] k = 6 -> clean_text(prev).t
               [] k = 7 -> lowercase_columns(prev).t

IsPrefix(p, q) == Len(p) <= Len(q) /\ \A i \in 1..Len(p) : p[i] = q[i]

Returned == op = "clean_bird_data" /\ pc = "returned"

\* C1: clean_bird_data runs load_data, handle_missing, remove_duplicates,
\* fix_types, validate_ranges, clean_text, lowercase_columns in that order,
\* each once and each on the output of the previous one; the file is written
\* only after the last stage, and the table returned is the table written.
C1_StagesInOrder ==
    op = "clean_bird_data" =>
        /\ IsPrefix(stages, PipelineOrder)
        /\ pc # "raised" => df = AfterStages(raw, Len(stages))
        /\ file # prior => stages = PipelineOrder /\ pc = "returned"
        /\ ret.returned => /\ file.exists
                           /\ file # prior
                           /\ file.header = ret.t.cols
                           /\ file.rows = ret.t.rows
                           /\ ~file.index
                           /\ ret.t = AfterStages(raw, 7)

C1_Witness ==
    /\ Returned
    /\ stages = PipelineOrder
    /\ NRows(ret.t) >= 2
    /\ file.rows = ret.t.rows

\* C2: the table returned by clean_bird_data has no two rows that are
\* identical across all columns.
C2_NoDuplicateRows ==
    Returned => \A i, j \in 1..NRows(ret.t) : ret.t.rows[i] = ret.t.rows[j] => i = j

\* the kind fix_types aims at for a column of the returned table
TargetOf(l) ==
    LET k == CHOOSE k \in 1..Len(type_map) : StrLower(type_map[k][1]) = l
    IN  type_map[k][2]

MappedColumns(t) == {l \in ColSet(t) : \E k \in 1..Len(type_map) : StrLower(type_map[k][1]) = l}

\* C3 as stated: in the table returned by clean_bird_data, year and
\* population are of the nullable-integer kind and latitude, longitude,
\* temperature, precipitation and shift_km of the nullable-float kind,
\* whenever present.
C3_ExpectedKinds ==
    Returned => \A l \in MappedColumns(ret.t) : ret.t.dtype[l] = TargetOf(l)

\* the name under which fix_types received the column that is returned as l
ReceivedName(l) ==
    CHOOSE c \in ColSet(AfterStages(raw, 3)) : StrLower(c) = l

\* the values fix_types received for the column that is returned as l
ReceivedByFixTypes(l) == Column(AfterStages(raw, 3), ReceivedName(l))

\* fix_types looks its columns up by their exact mixed-case names
InTypeMap(c) == \E k \in 1..Len(type_map) : type_map[k][1] = c

Castable(q, target) ==
    /\ \A i \in 1..Len(q) : q[i].k # "str"
    /\ target = "Int64" => \A i \in 1..Len(q) : q[i].k = "num" => q[i].d = 1

\* C3 amended: a mapped column of the returned table is of its nullable
\* kind exactly when fix_types received it under the mixed-case name of its
\* type map and its values could be cast (no text that is not a number and,
\* for the integer kind, only whole numbers); otherwise it is of none of the
\* nullable kinds.
C3_KindsWhenCastable ==
    Returned => \A l \in MappedColumns(ret.t) :
        IF InTypeMap(ReceivedName(l)) /\ Castable(ReceivedByFixTypes(l), TargetOf(l))
        THEN ret.t.dtype[l] = TargetOf(l)
        ELSE ret.t.dtype[l] \in {"int64", "float64", "object"}

C3_Witness ==
    /\ Returned
    /\ NRows(ret.t) > 0
    /\ \E l \in MappedColumns(ret.t) : ret.t.dtype[l] = "Int64"
    /\ \E l \in MappedColumns(ret.t) : ret.t.dtype[l] = "object"

Called(name) == op = name /\ pc \in {"called", "called_again"}

\* the k-th smallest index of the index set idx
KthIndex(idx, k) == CHOOSE i \in idx : Cardinality({j \in idx : j < i}) = k - 1

\* outrows is inrows restricted to the indices idx, in the original order
IsSelection(outrows, inrows, idx) ==
    /\ Len(outrows) = Cardinality(idx)
    /\ \A k \in 1..Len(outrows) : outrows[k] = inrows[KthIndex(idx, k)]

HasValue(t, c) == \E i \in 1..NRows(t) : ~IsNA(t.rows[i][c])

\* C4 as stated: handle_missing, for every table, every threshold and either
\* fill strategy, returns a table in which every retained column has no
\* missing value.
C4_NoMissingInRetained ==
    Called("handle_missing") =>
        /\ out.ok
        /\ \A c \in ColSet(out.t) : MissingCount(out.t, c) = 0

\* C4 amended: in the table handle_missing returns, every retained column
\* that had at least one non-missing value has no missing value.
C4_NoMissingWhereValues ==
    (Called("handle_missing") /\ out.ok) =>
        \A c \in ColSet(out.t) : HasValue(tin, c) => MissingCount(out.t, c) = 0

C4_Witness ==
    /\ Called("handle_missing")
    /\ out.ok
    /\ \E c \in ColSet(out.t) :
          /\ MissingCount(tin, c) > 0
          /\ HasValue(tin, c)
          /\ MissingCount(out.t, c) = 0

RowSet(t) == {t.rows[i] : i \in 1..NRows(t)}

\* C6: remove_duplicates returns one row per distinct input row, the first
\* occurrence of each, in the original relative order; the number of rows
\* removed equals the duplicate count computed before removal.
C6_FirstOccurrencesKept ==
    Called("remove_duplicates") =>
        LET firsts == {i \in 1..NRows(tin) : \A j \in 1..(i - 1) : tin.rows[j] # tin.rows[i]}
        IN  /\ IsSelection(out.t.rows, tin.rows, firsts)
            /\ RowSet(out.t) = RowSet(tin)
            /\ NRows(out.t) = Cardinality(RowSet(tin))
            /\ \A i, j \in 1..NRows(out.t) : out.t.rows[i] = out.t.rows[j] => i = j
            /\ NRows(tin) - NRows(out.t) = out.dup_count
            /\ out.t.cols = tin.cols
            /\ out.t.dtype = tin.dtype

C6_Witness ==
    /\ Called("remove_duplicates")
    /\ out.dup_count >= 1
    /\ \E i, j, k \in 1..NRows(tin) :
          /\ i < j /\ j < k
          /\ tin.rows[i] = tin.rows[k]
          /\ tin.rows[i] # tin.rows[j]
    /\ NRows(out.t) >= 2

\* C7: remove_duplicates is idempotent: applied to its own output it returns
\* that output and reports zero duplicates.
C7_Idempotent ==
    (op = "remove_duplicates" /\ pc = "called_again") =>
        /\ out2.t = out.t
        /\ out2.dup_count = 0

C7_Witness ==
    /\ op = "remove_duplicates"
    /\ pc = "called_again"
    /\ out.dup_count >= 2
    /\ out2.t = out.t

tYears1969To2026 == <<IntCell(1969), IntCell(1970), IntCell(2025), IntCell(2026)>>

IsOrderStat(v, q, k) ==
    /\ Cardinality({i \in 1..Len(q) : NumLess(q[i], v)}) < k
    /\ Cardinality({i \in 1..Len(q) : NumLeq(q[i], v)}) >= k

\* m is the median of the non-empty sequence q
IsMedianOf(m, q) ==
    LET len == Len(q)
    IN  /\ m.k = "num"
        /\ IF len % 2 = 1
           THEN IsOrderStat(m, q, (len + 1) \div 2)
           ELSE \E i, j \in 1..len :
                   /\ IsOrderStat(q[i], q, len \div 2)
                   /\ IsOrderStat(q[j], q, (len \div 2) + 1)
                   /\ 2 * m.n * q[i].d * q[j].d = m.d * (q[i].n * q[j].d + q[j].n * q[i].d)

\* m is the arithmetic mean of the non-empty sequence q: Len(q) times m is the sum
IsMeanOf(m, q) ==
    /\ m.k = "num"
    /\ LET total == SeqSum(q)
       IN  Len(q) * m.n * total.d = total.n * m.d

\* C9: handle_missing fills every missing cell of a retained numeric column
\* with the median of the column's non-missing entries under the default
\* strategy and with their mean under strategy mean; non-missing cells are
\* left unchanged.
C9_NumericFillValue ==
    (Called("handle_missing") /\ out.ok) =>
        \A c \in ColSet(out.t) :
            (is_numeric_dtype(tin.dtype[c]) /\ HasValue(tin, c)) =>
                \A i \in 1..NRows(tin) :
                    IF IsNA(tin.rows[i][c])
                    THEN IF args.fill_method = "median"
                         THEN IsMedianOf(out.t.rows[i][c], Present(tin, c))
                         ELSE IsMeanOf(out.t.rows[i][c], Present(tin, c))
                    ELSE out.t.rows[i][c] = tin.rows[i][c]

C9_Witness ==
    /\ Called("handle_missing")
    /\ out.ok
    /\ args.fill_method = "median"
    /\ \E c \in ColSet(out.t) : \E i \in 1..NRows(tin) :
          /\ is_numeric_dtype(tin.dtype[c])
          /\ IsNA(tin.rows[i][c])
          /\ IsMedianOf(out.t.rows[i][c], Present(tin, c))
          /\ ~IsMeanOf(out.t.rows[i][c], Present(tin, c))

TextColSet == {text_cols[k] : k \in 1..Len(text_cols)}

\* r is s without its leading and trailing whitespace, in title case
IsStripTitleOf(r, s) ==
    /\ r # <<>> => ~IsSpace(r[1]) /\ ~IsSpace(r[Len(r)])
    /\ \E a \in 0..Len(s) :
          /\ a + Len(r) <= Len(s)
          /\ \A i \in 1..a : IsSpace(s[i])
          /\ \A i \in (a + Len(r) + 1)..Len(s) : IsSpace(s[i])
          /\ \A i \in 1..Len(r) :
                /\ ToLower(r[i]) = ToLower(s[a + i])
                /\ IsCased(r[i]) => (IsUpper(r[i]) <=> (i = 1 \/ ~IsCased(r[i - 1])))

\* C10: clean_text replaces every value of each present text column
\* (Bird_Species, Country) by its text form, stripped and in title case, so
\* that "  asian koel  " becomes "Asian Koel"; it leaves the other columns
\* unchanged, does nothing for an absent column, and is idempotent.
C10_TextNormalised ==
    Called("clean_text") =>
        /\ out.ok
        /\ out.t.cols = tin.cols
        /\ NRows(out.t) = NRows(tin)
        /\ \A c \in ColSet(tin) : \A i \in 1..NRows(tin) :
              IF c \in TextColSet
              THEN /\ out.t.rows[i][c].k = "str"
                   /\ IsStripTitleOf(out.t.rows[i][c].s,
                                     astype_str(tin.rows[i][c], tin.dtype[c]))
                   /\ tin.rows[i][c] = Str(tAsianKoelRaw) => out.t.rows[i][c] = Str(tAsianKoel)
              ELSE /\ out.t.rows[i][c] = tin.rows[i][c]
                   /\ out.t.dtype[c] = tin.dtype[c]
        /\ ColSet(tin) \cap TextColSet = {} => out.t = tin
        /\ pc = "called_again" => out2.t = out.t

C10_Witness ==
    /\ op = "clean_text"
    /\ pc = "called_again"
    /\ out2.t = out.t
    /\ HasCol(tin, cBird_Species)
    /\ HasCol(tin, cYear)
    /\ \E i \in 1..NRows(tin) :
          /\ tin.rows[i][cBird_Species] = Str(tAsianKoelRaw)
          /\ out.t.rows[i][cBird_Species] = Str(tAsianKoel)
          /\ out.t.rows[i][cYear] = tin.rows[i][cYear]

\* filling the missing cell makes its row equal to another row
FillCoincides(f) ==
    LET t == read_csv(f)
    IN  Cardinality(RowSet(handle_missing(t, DefaultThreshold, "median").t)) < Cardinality(RowSet(t))

NoMissing(t) == \A i \in 1..NRows(t) : \A c \in ColSet(t) : ~IsNA(t.rows[i][c])

LowerCaseHeaders(q) == \A i \in 1..Len(q) : \A j \in 1..Len(q[i]) : ~IsUpper(q[i][j])

\* every value of the species column is stripped and in title case
TitleCasedText(t) ==
    \A i \in 1..NRows(t) :
        LET v == t.rows[i][StrLower(cBird_Species)]
        IN  v.k = "str" /\ IsStripTitleOf(v.s, v.s)

\* C11 as stated: a 5-row input with one duplicate row, one row with an
\* out-of-range year, one missing numeric cell and mixed-case text columns,
\* passed through clean_bird_data, yields exactly 3 rows, no missing values,
\* lower-case headers and title-cased text fields.
C11_EndToEnd ==
    Returned /\ IsEndToEndFixture(raw) =>
        /\ NRows(ret.t) = 3
        /\ NoMissing(ret.t)
        /\ LowerCaseHeaders(ret.t.cols)
        /\ TitleCasedText(ret.t)

\* C11 amended: such an input yields no missing values, lower-case headers
\* and title-cased text fields, and exactly 3 rows unless filling the
\* missing cell makes its row equal to another row, in which case
\* remove_duplicates drops it as well and 2 rows remain.
C11_EndToEndUnlessFillCoincides ==
    Returned /\ IsEndToEndFixture(raw) =>
        /\ NRows(ret.t) = IF FillCoincides(raw) THEN 2 ELSE 3
        /\ NoMissing(ret.t)
        /\ LowerCaseHeaders(ret.t.cols)
        /\ TitleCasedText(ret.t)
        /\ file.header = ret.t.cols

C11_Witness ==
    /\ Returned
    /\ IsEndToEndFixture(raw)
    /\ ~FillCoincides(raw)
    /\ NRows(ret.t) = 3
    /\ \E i \in 1..5 : IsNA(raw.rows[i][cPopulation])
    /\ \E i \in 1..3 : ret.t.rows[i][StrLower(cBird_Species)] = Str(tAsianKoel)

\* C16: fix_types never raises; a mapped column that is present is cast when
\* its values can be cast and otherwise keeps its values and kind, whether or
\* not an earlier column failed; every other column, the column order and
\* the rows are left as they were.
C16_FixTypesBestEffort ==
    Called("fix_types") =>
        /\ out.ok
        /\ out.t.cols = tin.cols
        /\ out.t.rows = tin.rows
        /\ \A c \in ColSet(tin) :
              out.t.dtype[c] =
                  IF InTypeMap(c) /\ Castable(Column(tin, c), TargetOf(StrLower(c)))
                  THEN TargetOf(StrLower(c))
                  ELSE tin.dtype[c]

\* Population holds a text and is kept as it was; Temperature, later in the
\* type map, is cast all the same
C16_Witness ==
    /\ Called("fix_types")
    /\ HasCol(tin, cPopulation) /\ HasCol(tin, cTemperature)
    /\ \E i \in 1..NRows(tin) : tin.rows[i][cPopulation].k = "str"
    /\ out.t.dtype[cPopulation] = "object"
    /\ tin.dtype[cTemperature] = "float64"
    /\ out.t.dtype[cTemperature] = "Float64"

\* the k-th stage of the body applied to x, the file or the table before it
Stage(k, x) ==
    CASE k = 1 -> load_data(x)
      [] k = 2 -> handle_missing(x, DefaultThreshold, "median")
      [] k = 3 -> remove_duplicates(x)
      [] k = 4 -> fix_types(x)
      [] k = 5 -> validate_ranges(x, DefaultYearRange)
      [] k = 6 -> clean_text(x)
      [] k = 7 -> lowercase_columns(x)

\* what the k-th stage of the body does on the output of the stages before it
StageResult(f, k) == Stage(k, IF k = 1 THEN f ELSE AfterStages(f, k - 1))

\* the first stage from the k-th on that raises, 0 when none does
RECURSIVE FirstRaise(_, _)
FirstRaise(x, k) ==
    IF k > Len(PipelineOrder) THEN 0
    ELSE LET r == Stage(k, x)
         IN  IF r.ok THEN FirstRaise(r.t, k + 1) ELSE k

Orchestrating == op \in {"clean_bird_data", "analysis.clean_bird_data"}

\* C17: when a stage of clean_bird_data raises, the load included, no later
\* stage runs, the run ends as raised to the caller and returns nothing, and
\* the output file stays as it was before the run - not created, not
\* overwritten.
C17_FailureAborts ==
    Orchestrating =>
        \A k \in {FirstRaise(raw, 1)} :
            /\ k # 0 /\ (op = "clean_bird_data" \/ k < Len(PipelineOrder)) =>
                  /\ Len(stages) <= k
                  /\ Len(stages) = k => pc = "raised"
                  /\ file = prior
                  /\ ~ret.returned
            /\ pc = "raised" =>
                  /\ k = Len(stages)
                  /\ file = prior
                  /\ ~ret.returned
                  /\ ~ENABLED (StepHandleMissing \/ StepRemoveDuplicates \/ StepFixTypes
                                  \/ StepValidateRanges \/ StepCleanText
                                  \/ StepLowercaseColumns \/ StepSave)

\* validate_ranges raised on a text Year column while an older output file
\* was in place
C17_Witness ==
    /\ op = "clean_bird_data"
    /\ pc = "raised"
    /\ stages = SubSeq(PipelineOrder, 1, 5)
    /\ prior = OldFile
    /\ file = OldFile

C17_WitnessLoad ==
    /\ op = "clean_bird_data"
    /\ pc = "raised"
    /\ stages = <<"load_data">>
    /\ ~file.exists

\* the input file exists and all its headers are lower-case already
LowerCaseInput(f) == f.exists /\ f.cols # <<>> /\ LowerCaseHeaders(f.cols)

\* C20: on an input whose headers are already lower-case, fix_types,
\* validate_ranges and clean_text find none of the mixed-case names they
\* look up: each returns its table unchanged without raising, so once the
\* first three stages are through clean_bird_data runs to its end and
\* returns the table remove_duplicates produced, out-of-range years and
\* untrimmed text included.
C20_LowerCaseInputPassesThrough ==
    /\ op = "clean_bird_data" /\ LowerCaseInput(raw) =>
          /\ pc = "raised" => Len(stages) <= 3
          /\ Len(stages) >= 3 /\ pc # "raised" =>
                /\ df = AfterStages(raw, 3)
                /\ \A k \in 4..6 : StageResult(raw, k).ok /\ StageResult(raw, k).t = df
          /\ pc = "returned" => ret.returned /\ ret.t = AfterStages(raw, 3)
    /\ Called("fix_types") \/ Called("validate_ranges") \/ Called("clean_text") =>
          (LowerCaseInput(raw) => out.ok /\ out.t = tin)

\* the run returned a table that still holds the year 2026 and an untrimmed,
\* lower-case species name
C20_Witness ==
    /\ Returned
    /\ LowerCaseInput(raw)
    /\ ret.t.cols = <<StrLower(cYear), StrLower(cBird_Species)>>
    /\ \E i \in 1..NRows(ret.t) : ret.t.rows[i][StrLower(cYear)] = IntCell(2026)
    /\ \E i \in 1..NRows(ret.t) : ret.t.rows[i][StrLower(cBird_Species)] = Str(tAsianKoelRaw)

Aggregated(fn) == pc = "dash" /\ agg.fn = fn

ValuesOf(t, c) == {t.rows[i][c] : i \in 1..NRows(t)}

\* the sum of column c over the rows idx of t
RECURSIVE SumAt(_, _, _)
SumAt(t, c, idx) ==
    IF idx = {} THEN IntCell(0)
    ELSE LET i == CHOOSE i \in idx : TRUE
         IN  NumAdd(t.rows[i][c], SumAt(t, c, idx \ {i}))

\* v is the mean of column c over the rows idx of t
IsMeanAt(v, t, c, idx) ==
    LET total == SumAt(t, c, idx)
    IN  v.k = "num" /\ v.n * total.d * Cardinality(idx) = total.n * v.d

SpyrosColumns == {lBird_Species, lYear, lPopulation, lTemperature, lPrecipitation, lTraffic}

\* C12: model_data_spyros returns exactly one row per year of the input (the
\* years of the population pivot and of the climate averages); in it each
\* species that has rows in that year holds the sum of their population,
\* and temperature, precipitation and traffic hold the mean over all rows of
\* that year.
C12_YearlySumsAndMeans ==
    Aggregated("model_data_spyros") =>
        /\ agg.ok <=> SpyrosColumns \subseteq ColSet(dash)
        /\ agg.ok =>
              /\ NRows(agg.t) = Cardinality(ValuesOf(dash, lYear))
              /\ \A y \in ValuesOf(dash, lYear) :
                    \E i \in 1..NRows(agg.t) :
                        LET row == agg.t.rows[i]
                            ofyear == {j \in 1..NRows(dash) : dash.rows[j][lYear] = y}
                        IN  /\ row[lYear] = y
                            /\ \A sp \in ValuesOf(dash, lBird_Species) :
                                  LET grp == {j \in ofyear : dash.rows[j][lBird_Species] = sp}
                                  IN  grp # {} => row[sp.s] = SumAt(dash, lPopulation, grp)
                            /\ \A c \in {lTemperature, lPrecipitation, lTraffic} :
                                  IsMeanAt(row[c], dash, c, ofyear)

\* two readings of one species and year with populations 1 and 2 and
\* temperatures 10 and 20: the row holds 3 and 15
C12_Witness ==
    /\ Aggregated("model_data_spyros")
    /\ agg.ok
    /\ NRows(dash) = 3
    /\ NRows(agg.t) = 2
    /\ \E i \in 1..NRows(agg.t) :
          /\ agg.t.rows[i][lYear] = IntCell(2000)
          /\ agg.t.rows[i][tAsianKoel] = IntCell(3)
          /\ agg.t.rows[i][lTemperature] = IntCell(15)

ShiftKeys == <<lCountry, lBird_Species, lYear>>

\* the rows of t that agree with the row r on country, species and year
SameTriple(t, r) == {j \in 1..NRows(t) : \A k \in 1..3 : t.rows[j][ShiftKeys[k]] = r[ShiftKeys[k]]}

\* C13: get_bird_shift_climate_and_land_usage_data returns exactly one row
\* for every (country, species, year) that has an input row and none for any
\* other; its max_shift_km is the maximum shift_km over the input rows of
\* that triple only, and its population and temperature are those of one
\* input row of the triple that attains the maximum.
C13_OneRowPerTripleWithItsMaximum ==
    Aggregated("get_bird_shift_climate_and_land_usage_data") /\ agg.ok =>
        /\ \A j \in 1..NRows(dash) :
              Cardinality(SameTriple(agg.t, dash.rows[j])) = 1
        /\ \A i \in 1..NRows(agg.t) :
              LET row == agg.t.rows[i]
                  grp == SameTriple(dash, row)
              IN  /\ grp # {}
                  /\ \A j \in grp : NumLeq(dash.rows[j][lShift_km], row[cMaxShift])
                  /\ \E j \in grp : /\ dash.rows[j][lShift_km] = row[cMaxShift]
                                     /\ dash.rows[j][lPopulation] = row[cPopulationAtMax]
                                     /\ dash.rows[j][lTemperature] = row[cTemperatureAtMax]

\* one country and species with shift 45 in 2000 and shift 10 in 2001: the
\* row of 2001 holds 10, its own maximum
C13_Witness ==
    /\ Aggregated("get_bird_shift_climate_and_land_usage_data")
    /\ agg.ok
    /\ NRows(dash) = 3
    /\ NRows(agg.t) = 2
    /\ agg.t.rows[1][lYear] = IntCell(2000) /\ agg.t.rows[1][cMaxShift] = IntCell(45)
    /\ agg.t.rows[2][lYear] = IntCell(2001) /\ agg.t.rows[2][cMaxShift] = IntCell(10)
    /\ agg.t.rows[1][lCountry] = agg.t.rows[2][lCountry]

\* C14: the table returned by get_bird_shift_climate_and_land_usage_data is
\* sorted ascending by year: of two consecutive rows the first has the
\* smaller or the same year.
C14_SortedByYear ==
    Aggregated("get_bird_shift_climate_and_land_usage_data") /\ agg.ok =>
        \A i \in 1..(NRows(agg.t) - 1) :
            NumLeq(agg.t.rows[i][lYear], agg.t.rows[i + 1][lYear])

\* the loops collect India 2000, India 2001, Japan 2000; the table returned
\* has Japan 2000 before India 2001
C14_Witness ==
    /\ Aggregated("get_bird_shift_climate_and_land_usage_data")
    /\ agg.ok
    /\ NRows(agg.t) = 3
    /\ agg.t.rows[2][lCountry] = Str(tJapan) /\ agg.t.rows[2][lYear] = IntCell(2000)
    /\ agg.t.rows[3][lCountry] = Str(tIndia) /\ agg.t.rows[3][lYear] = IntCell(2001)

cSpeciesCount == <<"s","p","e","c","i","e","s","_","c","o","u","n","t">>

\* C15: the diversity aggregator build_species_per_country_table calls
\* returns, for every cleaned table, exactly one row per country of the
\* table, with the number of distinct species of that country in
\* species_count.
C15_OneRowPerCountry ==
    Aggregated("build_species_per_country_table")
        /\ {lCountry, lBird_Species} \subseteq ColSet(dash) =>
        /\ agg.ok
        /\ NRows(agg.t) = Cardinality(ValuesOf(dash, lCountry))
        /\ \A c \in ValuesOf(dash, lCountry) :
              \E i \in 1..NRows(agg.t) :
                  /\ agg.t.rows[i][lCountry] = c
                  /\ agg.t.rows[i][cSpeciesCount] =
                        IntCell(Cardinality({dash.rows[j][lBird_Species] :
                                               j \in {j \in 1..NRows(dash) : dash.rows[j][lCountry] = c}}))

\* C18: whichever orchestrator ran, the file at the output location has
\* lower-case column headers and no index column.
C18_PersistedHeadersLowerCase ==
    file.exists => LowerCaseHeaders(file.header) /\ ~file.index

\* what the aggregator fn returns on the table t
ResultOf(fn, t) ==
    IF fn = "model_data_spyros" THEN model_data_spyros(t)
    ELSE get_bird_shift_climate_and_land_usage_data(t)

TripleOf(r) == <<r[lCountry], r[lBird_Species], r[lYear]>>

\* a single group-by on (country, species, year) that reduces each group to
\* its maximum-shift row, the first such row of the group in table order
\* (df.loc[df.groupby([...])["shift_km"].idxmax()]), as a set of summary rows
GroupByMaxShift(t) ==
    LET keys == {TripleOf(t.rows[i]) : i \in 1..NRows(t)}
        members == [g \in keys |-> {i \in 1..NRows(t) : TripleOf(t.rows[i]) = g}]
        top == [g \in keys |->
                  CHOOSE i \in members[g] :
                      \A j \in members[g] :
                          /\ NumLeq(t.rows[j][lShift_km], t.rows[i][lShift_km])
                          /\ j < i => NumLess(t.rows[j][lShift_km], t.rows[i][lShift_km])]
    IN  { (lCountry :> g[1]) @@ (lBird_Species :> g[2]) @@ (lYear :> g[3])
          @@ (cMaxShift :> t.rows[top[g]][lShift_km])
          @@ (cPopulationAtMax :> t.rows[top[g]][lPopulation])
          @@ (cTemperatureAtMax :> t.rows[top[g]][lTemperature]) : g \in keys }

ShiftColumns == {lCountry, lBird_Species, lYear, lShift_km, lPopulation, lTemperature}

\* C21: on every table the rows the nested loops of
\* get_bird_shift_climate_and_land_usage_data collect are, as a set and
\* without repetition, the rows of a single group-by on (country, species,
\* year) that selects the first maximum-shift row of each group, ties on the
\* maximum included; when the call does not return a table (no input rows)
\* the group-by has no rows either.
C21_LoopsEqualGroupBy ==
    (Aggregated("get_bird_shift_climate_and_land_usage_data")
        /\ ShiftColumns \subseteq ColSet(dash)) =>
        \A rows \in {GroupByMaxShift(dash)} :
            IF agg.ok
            THEN /\ RowSet(agg.t) = rows
                 /\ NRows(agg.t) = Cardinality(rows)
            ELSE rows = {} /\ NRows(dash) = 0

\* three readings of two groups, two of them tied on the maximum shift of
\* their group with different population: two rows are returned
C21_Witness ==
    /\ Aggregated("get_bird_shift_climate_and_land_usage_data")
    /\ agg.ok
    /\ NRows(dash) = 3
    /\ NRows(agg.t) = 2
    /\ RowSet(agg.t) = GroupByMaxShift(dash)
    /\ \E i, j \in 1..3 :
          /\ i < j
          /\ TripleOf(dash.rows[i]) = TripleOf(dash.rows[j])
          /\ dash.rows[i][lShift_km] = IntCell(45)
          /\ dash.rows[j][lShift_km] = IntCell(45)
          /\ dash.rows[i][lPopulation] # dash.rows[j][lPopulation]
    /\ \E k \in 1..3 : dash.rows[k][lCountry] = Str(tJapan)

\* how often the value v occurs in column c of t
CountOf(t, c, v) == Cardinality({i \in 1..NRows(t) : t.rows[i][c] = v})

\* m is the first of the modes of column c of t: a non-missing value that
\* no other value outnumbers and that sorts before every value as frequent
IsFirstMode(m, t, c) ==
    /\ ~IsNA(m)
    /\ m \in ValuesOf(t, c)
    /\ \A w \in ValuesOf(t, c) \ {m, NA} :
          \/ CountOf(t, c, w) < CountOf(t, c, m)
          \/ CountOf(t, c, w) = CountOf(t, c, m) /\ StrLess(m.s, w.s)

\* C22: handle_missing fills every missing cell of a retained non-numeric
\* column with one and the same value, the most frequent non-missing value
\* of the column and, among several equally frequent ones, the first of the
\* sorted list of modes; such a column always has a value, and its
\* non-missing cells are left unchanged.
C22_TextFilledWithFirstMode ==
    (Called("handle_missing") /\ out.ok) =>
        \A c \in ColSet(out.t) :
            (~is_numeric_dtype(tin.dtype[c]) /\ MissingCount(tin, c) > 0) =>
                /\ HasValue(tin, c)
                /\ \E m \in ValuesOf(tin, c) :
                      /\ IsFirstMode(m, tin, c)
                      /\ \A i \in 1..NRows(tin) :
                            out.t.rows[i][c] = IF IsNA(tin.rows[i][c]) THEN m ELSE tin.rows[i][c]

\* a text column with two values, each occurring once, and a missing cell:
\* the cell is filled with the value that sorts first, which is not the one
\* that comes first in the column
C22_Witness ==
    /\ Called("handle_missing")
    /\ out.ok
    /\ \E c \in ColSet(out.t) : \E i, j, k \in 1..NRows(tin) :
          /\ ~is_numeric_dtype(tin.dtype[c])
          /\ i < j
          /\ IsNA(tin.rows[k][c])
          /\ ~IsNA(tin.rows[i][c]) /\ ~IsNA(tin.rows[j][c])
          /\ tin.rows[i][c] # tin.rows[j][c]
          /\ CountOf(tin, c, tin.rows[i][c]) = CountOf(tin, c, tin.rows[j][c])
          /\ out.t.rows[k][c] = tin.rows[j][c]

\* the rows of the group of row r in t that hold the group's maximum shift_km
TiedAtMax(t, r) ==
    {j \in SameTriple(t, r) :
        \A k \in SameTriple(t, r) : NumLeq(t.rows[k][lShift_km], t.rows[j][lShift_km])}

\* the smallest index of the non-empty index set idx
FirstOf(idx) == CHOOSE i \in idx : \A j \in idx : i <= j

\* the table t with its rows i and j exchanged
SwapRows(t, i, j) ==
    [t EXCEPT !.rows = [k \in 1..NRows(t) |->
                          IF k = i THEN t.rows[j] ELSE IF k = j THEN t.rows[i] ELSE t.rows[k]]]

\* C23: every row get_bird_shift_climate_and_land_usage_data returns takes
\* population_at_max_shift and temperature_at_max_shift from the first row,
\* in the row order of the input table, among the rows of its group that
\* hold the maximum shift_km; the result depends on that order: exchanging
\* the first tied row with a later tied row of different population or
\* temperature changes the rows returned.
C23_TieTakesFirstRowInInputOrder ==
    (Aggregated("get_bird_shift_climate_and_land_usage_data") /\ agg.ok) =>
        /\ \A i \in 1..NRows(agg.t) :
              LET row == agg.t.rows[i]
                  first == dash.rows[FirstOf(TiedAtMax(dash, row))]
              IN  /\ row[cMaxShift] = first[lShift_km]
                  /\ row[cPopulationAtMax] = first[lPopulation]
                  /\ row[cTemperatureAtMax] = first[lTemperature]
        /\ \A i, j \in 1..NRows(dash) :
              (/\ i = FirstOf(TiedAtMax(dash, dash.rows[i]))
               /\ j \in TiedAtMax(dash, dash.rows[i])
               /\ <<dash.rows[i][lPopulation], dash.rows[i][lTemperature]>>
                     # <<dash.rows[j][lPopulation], dash.rows[j][lTemperature]>>) =>
                  \A r \in {get_bird_shift_climate_and_land_usage_data(SwapRows(dash, i, j))} :
                      r.ok /\ RowSet(r.t) # RowSet(agg.t)

\* two readings of India / Asian Koel in 2000 tied on shift 45, the one
\* with population 2 before the one with population 1: the row returned
\* holds population 2, and it holds 1 once the two readings are exchanged
C23_Witness ==
    /\ Aggregated("get_bird_shift_climate_and_land_usage_data")
    /\ agg.ok
    /\ NRows(dash) = 2
    /\ dash.rows[1] = Reading(tIndia, tAsianKoel, 2000, 45, TRUE)
    /\ dash.rows[2] = Reading(tIndia, tAsianKoel, 2000, 45, FALSE)
    /\ NRows(agg.t) = 1
    /\ agg.t.rows[1][cPopulationAtMax] = IntCell(2)
    /\ agg.t.rows[1][cTemperatureAtMax] = IntCell(20)
    /\ get_bird_shift_climate_and_land_usage_data(SwapRows(dash, 1, 2)).t.rows[1][cPopulationAtMax]
          = IntCell(1)

\* the input file has a Year column that holds a text that is no number
TextYear(f) ==
    /\ f.exists
    /\ \E k \in 1..Len(f.cols) : f.cols[k] = cYear
    /\ \E i \in 1..Len(f.rows) : f.rows[i][cYear].k = "str"

C25_NoRowsRaises ==
    Aggregated("get_bird_shift_climate_and_land_usage_data") =>
        /\ NRows(dash) = 0 => ~agg.ok
        /\ ShiftColumns \subseteq ColSet(dash) => (agg.ok <=> NRows(dash) > 0)
        /\ agg.ok => NRows(agg.t) > 0

\* the cleaned file holds the header and no row
C25_Witness ==
    /\ Aggregated("get_bird_shift_climate_and_land_usage_data")
    /\ file.exists
    /\ file.header = CleanedHeader
    /\ dash.cols = CleanedHeader
    /\ NRows(dash) = 0
    /\ ~agg.ok

\* C26: in the table model_data_spyros returns, the column of a species
\* holds a missing value, not zero, in the row of every year in which the
\* species has no input row, and a value in every other row; the years of
\* the rows are exactly the distinct years of the input, each once, so a
\* year is present as soon as one species has a row in it and the inner
\* join drops none (the tables read hold no missing year or species).
C26_AbsentSpeciesIsMissing ==
    (Aggregated("model_data_spyros") /\ agg.ok) =>
        /\ \A i \in 1..NRows(dash) : ~IsNA(dash.rows[i][lYear]) /\ ~IsNA(dash.rows[i][lBird_Species])
        /\ ValuesOf(agg.t, lYear) = ValuesOf(dash, lYear)
        /\ NRows(agg.t) = Cardinality(ValuesOf(dash, lYear))
        /\ \A i \in 1..NRows(agg.t) : \A sp \in ValuesOf(dash, lBird_Species) :
              LET grp == {j \in 1..NRows(dash) : /\ dash.rows[j][lBird_Species] = sp
                                                  /\ dash.rows[j][lYear] = agg.t.rows[i][lYear]}
              IN  /\ sp.s \in DOMAIN agg.t.rows[i]
                  /\ IsNA(agg.t.rows[i][sp.s]) <=> grp = {}

\* Asian Koel read in 2000 and 2001, House Crow in 2000 only: the row of
\* 2001 is there, with a population for Asian Koel and a missing value for
\* House Crow
C26_Witness ==
    /\ Aggregated("model_data_spyros")
    /\ agg.ok
    /\ NRows(dash) = 3
    /\ NRows(agg.t) = 2
    /\ \A i \in 1..2 : {tAsianKoel, tHouseCrow} \subseteq DOMAIN agg.t.rows[i]
    /\ agg.t.rows[2][lYear] = IntCell(2001)
    /\ agg.t.rows[2][tAsianKoel] = IntCell(1)
    /\ IsNA(agg.t.rows[2][tHouseCrow])
    /\ agg.t.rows[2][tHouseCrow] # IntCell(0)
    /\ ~IsNA(agg.t.rows[1][tHouseCrow])

====
